---- MODULE Spec2Model ----
(***************************************************************************)
(* A model of the cove numeric-cast engine (src/src/impls/*.rs).           *)
(*                                                                         *)
(* Every machine value is modelled by its bit pattern: the set of the      *)
(* positions of its 1 bits (position 0 is the least significant bit), so   *)
(* that 128-bit integers and 64-bit floats keep their full width.  A       *)
(* mathematical value is a sign and a magnitude, the magnitude being the   *)
(* set of the exponents k of the powers 2^k that sum to it (negative k for *)
(* the fractional part of a float).                                        *)
(***************************************************************************)
EXTENDS Integers, FiniteSets, Sequences, TLC

VARIABLES ptr, debug, pc, from, to, x, res, op, out

vars == <<ptr, debug, pc, from, to, x, res, op, out>>

(***************************************************************************)
(* Bounds of the model.                                                    *)
(***************************************************************************)
\* the integer sources are the values at most EdgeSpan away from an edge
\* (0, a power of two of EdgeExps, MIN, MAX), and the examples of the docs
EdgeSpan == 1

(***************************************************************************)
(* Bit sets.                                                               *)
(***************************************************************************)
MaxOf(S) == 0 - (CHOOSE m \in {0 - i : i \in S} : \A y \in S : m <= 0 - y)

MinOf(S) == CHOOSE m \in S : \A y \in S : m <= y

\* the bit pattern of a small natural number
Bits(n) == {i \in 0..30 : (n \div (2^i)) % 2 = 1}

\* 2^k - 1
Ones(k) == 0..(k - 1)

\* magnitudes as sets of exponents: A < B
MagLt(A, B) == A # B /\ MaxOf((A \ B) \cup (B \ A)) \in B

\* S + 2^k, for a set S of exponents
AddBit(S, k) ==
    LET free == MinOf({i \in k..(MaxOf(S \cup {k}) + 1) : i \notin S})
    IN  {i \in S : i < k \/ i > free} \cup {free}

\* two's complement negation of a w-bit pattern
TwosNeg(m, w) ==
    IF m = {} THEN {}
    ELSE LET l == MinOf(m) IN {l} \cup {i \in (l + 1)..(w - 1) : i \notin m}

(***************************************************************************)
(* Mathematical values: [kind, neg, mag].                                  *)
(***************************************************************************)
Fin(neg, mag) == [kind |-> "fin", neg |-> neg, mag |-> mag]

Inf(neg) == [kind |-> "inf", neg |-> neg, mag |-> {}]

NaNVal(neg) == [kind |-> "nan", neg |-> neg, mag |-> {}]

\* a < b on finite or infinite values (the order of the extended reals;
\* +0 and -0 are equal)
ValLt(a, b) ==
    CASE a.kind = "inf" /\ b.kind = "inf" -> a.neg /\ ~b.neg
      [] a.kind = "inf" -> a.neg
      [] b.kind = "inf" -> ~b.neg
      [] OTHER ->
            IF a.neg = b.neg
            THEN IF a.neg THEN MagLt(b.mag, a.mag) ELSE MagLt(a.mag, b.mag)
            ELSE a.neg /\ ~(a.mag = {} /\ b.mag = {})

\* a = b as mathematical values (+0 = -0); a NaN equals nothing
ValEq(a, b) ==
    /\ a.kind # "nan" /\ b.kind # "nan"
    /\ a.kind = b.kind
    /\ a.mag = b.mag
    /\ (a.neg = b.neg \/ (a.kind = "fin" /\ a.mag = {}))

(***************************************************************************)
(* The numeric types.                                                      *)
(***************************************************************************)
UnsignedTypes == {"u8", "u16", "u32", "u64", "u128", "usize"}

SignedTypes == {"i8", "i16", "i32", "i64", "i128", "isize"}

IntTypes == UnsignedTypes \cup SignedTypes

FloatTypes == {"f32", "f64"}

PrimitiveTypes == IntTypes \cup FloatTypes

NonZeroTypes ==
    {"NonZeroU8", "NonZeroU16", "NonZeroU32", "NonZeroU64", "NonZeroU128",
     "NonZeroUsize", "NonZeroI8", "NonZeroI16", "NonZeroI32", "NonZeroI64",
     "NonZeroI128", "NonZeroIsize"}

\* the primitive type of a NonZero* type
NonZeroPrimitive(n) ==
    CASE n = "NonZeroU8" -> "u8"     [] n = "NonZeroI8" -> "i8"
      [] n = "NonZeroU16" -> "u16"   [] n = "NonZeroI16" -> "i16"
      [] n = "NonZeroU32" -> "u32"   [] n = "NonZeroI32" -> "i32"
      [] n = "NonZeroU64" -> "u64"   [] n = "NonZeroI64" -> "i64"
      [] n = "NonZeroU128" -> "u128" [] n = "NonZeroI128" -> "i128"
      [] n = "NonZeroUsize" -> "usize" [] n = "NonZeroIsize" -> "isize"

PointerWidths == {16, 32, 64}

\* size_of::<T>() * 8, usize and isize taking the build's pointer width
Width(t) ==
    CASE t \in {"u8", "i8"} -> 8
      [] t \in {"u16", "i16"} -> 16
      [] t \in {"u32", "i32", "f32"} -> 32
      [] t \in {"u64", "i64", "f64"} -> 64
      [] t \in {"u128", "i128"} -> 128
      [] t \in {"usize", "isize"} -> ptr

Signed(t) == t \in SignedTypes

\* <T>::MIN and <T>::MAX as bit patterns
MinBits(t) == IF Signed(t) THEN {Width(t) - 1} ELSE {}

MaxBits(t) == IF Signed(t) THEN Ones(Width(t) - 1) ELSE Ones(Width(t))

\* the value of the bit pattern b read as the integer type t
IntVal(t, b) ==
    IF Signed(t) /\ (Width(t) - 1) \in b
    THEN Fin(TRUE, TwosNeg(b, Width(t)))
    ELSE Fin(FALSE, b)

\* the bit pattern, in the integer type t, of a value in t's range
IntBits(t, v) == IF v.neg THEN TwosNeg(v.mag, Width(t)) ELSE v.mag

\* MIN <= v <= MAX
InRange(t, v) ==
    /\ ~ValLt(v, IntVal(t, MinBits(t)))
    /\ ~ValLt(IntVal(t, MaxBits(t)), v)

(***************************************************************************)
(* The `as` keyword between integers: sign extension, then truncation.     *)
(***************************************************************************)
AsIntInt(f, t, b) ==
    LET ext == IF Signed(f) /\ (Width(f) - 1) \in b
               THEN b \cup (Width(f)..(Width(t) - 1))
               ELSE b
    IN  ext \cap Ones(Width(t))

(***************************************************************************)
(* Results and errors.                                                     *)
(***************************************************************************)
Ok(v) == [tag |-> "Ok", value |-> v]

LossyCastError(f, t) == [type |-> "LossyCastError", from |-> f, to |-> t]

FailedCastError(f) == [type |-> "FailedCastError", from |-> f]

Err(e) == [tag |-> "Err", error |-> e]

None == [tag |-> "None"]

IsOk(r) == r.tag = "Ok"

IsErr(r) == r.tag = "Err"

(***************************************************************************)
(* Floating point types: the constants of cast!(float_to_int ...).         *)
(***************************************************************************)
\* <$from>::MANTISSA_DIGITS
MANTISSA_DIGITS(f) == IF f = "f32" THEN 24 ELSE 53

TOTAL_BITS(f) == Width(f)

MANTISSA_BITS(f) == MANTISSA_DIGITS(f) - 1

EXPONENT_BITS(f) == TOTAL_BITS(f) - MANTISSA_BITS(f) - 1

\* <$int>::MAX >> (TOTAL_BITS - MANTISSA_BITS)
MANTISSA_MASK(f) == Ones(MANTISSA_BITS(f))

\* <$int>::MAX >> (TOTAL_BITS - EXPONENT_BITS)
EXPONENT_MASK(f) == Ones(EXPONENT_BITS(f))

\* EXPONENT_MASK >> 1
EXPONENT_BIAS(f) == {i - 1 : i \in EXPONENT_MASK(f) \ {0}}

\* the number a small bit pattern stands for
RECURSIVE ToNat(_)
ToNat(S) == IF S = {} THEN 0 ELSE 2^MaxOf(S) + ToNat(S \ {MaxOf(S)})

\* bits >> n and bits << n
Shr(b, n) == {i - n : i \in {j \in b : j >= n}}

Shl(b, n) == {i + n : i \in b}

\* the exponent field of a float's bits: (bits >> MANTISSA_BITS) & EXPONENT_MASK
ExponentField(f, b) == Shr(b, MANTISSA_BITS(f)) \cap EXPONENT_MASK(f)

SignBit(f, b) == (TOTAL_BITS(f) - 1) \in b

is_nan(f, b) ==
    ExponentField(f, b) = EXPONENT_MASK(f) /\ b \cap MANTISSA_MASK(f) # {}

is_sign_positive(f, b) == ~SignBit(f, b)

\* the float with the given sign, exponent field and mantissa field
FloatBits(f, neg, e, m) ==
    m \cup Shl(Bits(e), MANTISSA_BITS(f))
      \cup (IF neg THEN {TOTAL_BITS(f) - 1} ELSE {})

INFINITY(f) == FloatBits(f, FALSE, ToNat(EXPONENT_MASK(f)), {})

NEG_INFINITY(f) == FloatBits(f, TRUE, ToNat(EXPONENT_MASK(f)), {})

\* <f>::MAX and <f>::MIN: the largest finite magnitude
FloatMAX(f) == FloatBits(f, FALSE, ToNat(EXPONENT_MASK(f)) - 1, MANTISSA_MASK(f))

FloatMIN(f) == FloatBits(f, TRUE, ToNat(EXPONENT_MASK(f)) - 1, MANTISSA_MASK(f))

\* the value of a float of type f with the sign bit neg, the exponent
\* field e and the mantissa field m (IEEE 754 binary)
FieldsVal(f, neg, e, m) ==
    LET bias == ToNat(EXPONENT_BIAS(f))
        mb   == MANTISSA_BITS(f)
    IN  IF e = ToNat(EXPONENT_MASK(f))
        THEN IF m = {} THEN Inf(neg) ELSE NaNVal(neg)
        ELSE IF e = 0
        THEN Fin(neg, {i + 1 - bias - mb : i \in m})
        ELSE Fin(neg, {i + e - bias - mb : i \in m \cup {mb}})

\* the value of the bit pattern b read as the float type f
FloatVal(f, b) ==
    FieldsVal(f, SignBit(f, b), ToNat(ExponentField(f, b)), b \cap MANTISSA_MASK(f))

\* the exponent of the last place a float of type f keeps of a magnitude
\* whose leading exponent is top
LastPlace(f, top) ==
    LET emin == 1 - ToNat(EXPONENT_BIAS(f))
    IN  (IF top > emin THEN top ELSE emin) - MANTISSA_BITS(f)

\* the magnitude mag rounded to a multiple of 2^lsb, ties to even
RoundAt(mag, lsb) ==
    LET kept == {i \in mag : i >= lsb}
        rest == {i \in mag : i < lsb}
    IN  IF (lsb - 1) \in rest /\ (rest # {lsb - 1} \/ lsb \in kept)
        THEN AddBit(kept, lsb)
        ELSE kept

\* the float of type f with the sign neg and the magnitude r, which has at
\* most MANTISSA_DIGITS significant bits; an overflow gives an infinity
Pack(f, neg, r, top) ==
    LET bias == ToNat(EXPONENT_BIAS(f))
        mb   == MANTISSA_BITS(f)
        emin == 1 - bias
    IN  IF top > bias THEN FloatBits(f, neg, ToNat(EXPONENT_MASK(f)), {})
        ELSE IF top < emin
        THEN FloatBits(f, neg, 0, {i - (emin - mb) : i \in r})
        ELSE FloatBits(f, neg, top + bias, {i - (top - mb) : i \in r \ {top}})

\* Pack of a magnitude that may be zero
PackRounded(f, neg, r) ==
    IF r = {} THEN FloatBits(f, neg, 0, {}) ELSE Pack(f, neg, r, MaxOf(r))

\* the float of type f nearest to the finite value v, ties to even
\* (roundTiesToEven), an overflow giving an infinity
RoundToFloat(f, v) ==
    IF v.mag = {} THEN FloatBits(f, v.neg, 0, {})
    ELSE PackRounded(f, v.neg, RoundAt(v.mag, LastPlace(f, MaxOf(v.mag))))

(***************************************************************************)
(* The `as` keyword with a float on one side.                              *)
(***************************************************************************)
\* integer as float: the nearest float, ties to even
AsIntFloat(f, t, b) == RoundToFloat(t, IntVal(f, b))

\* the value v, if it is not within the range of the integer type t, replaced
\* by the nearer end of the range
Saturate(t, v) ==
    IF ValLt(v, IntVal(t, MinBits(t))) THEN MinBits(t)
    ELSE IF ValLt(IntVal(t, MaxBits(t)), v) THEN MaxBits(t)
    ELSE IntBits(t, v)

\* the value v with its fractional part dropped
Trunc(v) == IF v.kind = "fin" THEN Fin(v.neg, {i \in v.mag : i >= 0}) ELSE v

\* a value as an integer type: a NaN gives 0
ValAsInt(t, v) == IF v.kind = "nan" THEN {} ELSE Saturate(t, Trunc(v))

\* float as integer: truncation towards zero, saturating; NaN gives 0
AsFloatInt(f, t, b) == ValAsInt(t, FloatVal(f, b))

\* a value of the float type f as the float type t; the NaN with the sign
\* neg and the mantissa field m keeps its sign and the leading bits of its
\* payload, and is made quiet
ValAsFloat(f, t, v, m) ==
    LET d == MANTISSA_BITS(t) - MANTISSA_BITS(f)
    IN  IF v.kind = "nan"
        THEN FloatBits(t, v.neg, ToNat(EXPONENT_MASK(t)),
                       (IF d >= 0 THEN Shl(m, d) ELSE Shr(m, 0 - d))
                           \cup {MANTISSA_BITS(t) - 1})
        ELSE IF v.kind = "inf"
        THEN FloatBits(t, v.neg, ToNat(EXPONENT_MASK(t)), {})
        ELSE RoundToFloat(t, v)

\* float as float: the nearest float, ties to even; a NaN stays a NaN
AsFloatFloat(f, t, b) ==
    IF f = t THEN b
    ELSE ValAsFloat(f, t, FloatVal(f, b), b \cap MANTISSA_MASK(f))

\* x as To for any pair of primitive types
As(f, t, b) ==
    CASE f \in IntTypes /\ t \in IntTypes -> AsIntInt(f, t, b)
      [] f \in IntTypes /\ t \in FloatTypes -> AsIntFloat(f, t, b)
      [] f \in FloatTypes /\ t \in IntTypes -> AsFloatInt(f, t, b)
      [] f \in FloatTypes /\ t \in FloatTypes -> AsFloatFloat(f, t, b)

\* the value of a bit pattern of any primitive type
Val(t, b) == IF t \in FloatTypes THEN FloatVal(t, b) ELSE IntVal(t, b)

\* the value v rounded to the nearest integer, halves away from zero
RoundHalfAway(v) ==
    LET whole == {i \in v.mag : i >= 0}
    IN  Fin(v.neg, IF -1 \in v.mag THEN AddBit(whole, 0) ELSE whole)

\* f32::round / f64::round: an infinity or a NaN is returned as it is
round(f, b) ==
    IF ExponentField(f, b) = EXPONENT_MASK(f) THEN b
    ELSE RoundToFloat(f, RoundHalfAway(FloatVal(f, b)))

\* the IEEE comparisons of two floats of the same type
FloatGe(f, a, b) ==
    /\ ~is_nan(f, a) /\ ~is_nan(f, b)
    /\ ~ValLt(FloatVal(f, a), FloatVal(f, b))

FloatLe(f, a, b) == FloatGe(f, b, a)

FloatEq(f, a, b) == ValEq(FloatVal(f, a), FloatVal(f, b))

(***************************************************************************)
(* cast!(integer ...): integer -> integer, and integer -> a wider float     *)
(***************************************************************************)
\* the value v as the integer type t, an error when it is not in t's range
CheckedInt(t, v) == IF InRange(t, v) THEN Ok(IntBits(t, v)) ELSE Err({})

\* TryInto with the lower bound of the target left unchecked
TryIntoNoLowerBound(f, t, b) ==
    IF t \in FloatTypes THEN Ok(AsIntFloat(f, t, b))
    ELSE IF ~ValLt(IntVal(t, MaxBits(t)), IntVal(f, b)) THEN Ok(AsIntInt(f, t, b))
    ELSE Err({})

\* self.try_into(): Ok(the value in the target type) when it is in the
\* target's range (an integer to a float that holds all of its values: From)
TryInto(f, t, b) ==
    IF t \in FloatTypes THEN Ok(AsIntFloat(f, t, b))
    ELSE CheckedInt(t, IntVal(f, b))

\* Result::map_err with a closure giving the error e
map_err(r, e) == IF IsOk(r) THEN r ELSE Err(e)

\* CastImpl::cast_impl of cast!(integer ...)
cast_impl_integer(f, t, b) ==
    map_err(TryInto(f, t, b), LossyCastError(b, AsIntInt(f, t, b)))

\* closest_integer without the sign test
closest_integer_always_max(f, t, e) == MaxBits(t)

closest_integer(f, t, e) ==
    IF IntVal(f, e.from).neg THEN MinBits(t) ELSE MaxBits(t)

(***************************************************************************)
(* float -> integer: cast!(float_to_int ...)                               *)
(***************************************************************************)
\* a float literal whose decimal digits are exactly the value with magnitude m
FloatLit(f, m) == RoundToFloat(f, Fin(FALSE, m))

\* the precomputed max values, as magnitudes: the largest float not above
\* <$to>::MAX
MaxCastableMag(f, w) ==
    IF f = "f32"
    THEN CASE w = "u8"   -> Ones(8)     \* 255_f32
           [] w = "u16"  -> Ones(16)    \* 65_535_f32
           [] w = "u32"  -> 8..31       \* 4_294_967_040_f32
           [] w = "u64"  -> 40..63      \* 18_446_742_974_197_923_840_f32
           [] w = "i8"   -> Ones(7)     \* 127_f32
           [] w = "i16"  -> Ones(15)    \* 32_767_f32
           [] w = "i32"  -> 7..30       \* 2_147_483_520_f32
           [] w = "i64"  -> 39..62      \* 9_223_371_487_098_961_920_f32
           [] w = "i128" -> 103..126    \* 170_141_173_..._462_720_f32
    ELSE CASE w = "u8"   -> Ones(8)     \* 255_f64
           [] w = "u16"  -> Ones(16)    \* 65_535_f64
           [] w = "u32"  -> Ones(32)    \* 4_294_967_295_f64
           [] w = "u64"  -> 11..63      \* 18_446_744_073_709_549_568_f64
           [] w = "u128" -> 75..127     \* 340_282_366_..._501_888_f64
           [] w = "i8"   -> Ones(7)     \* 127_f64
           [] w = "i16"  -> Ones(15)    \* 32_767_f64
           [] w = "i32"  -> Ones(31)    \* 2_147_483_647_f64
           [] w = "i64"  -> 10..62      \* 9_223_372_036_854_774_784_f64
           [] w = "i128" -> 74..126     \* 170_141_183_..._250_944_f64

\* the type whose table entry the target t uses: usize and isize take the
\* entry of the build's pointer width
MaxCastableEntry(t) ==
    IF t \in {"usize", "isize"}
    THEN (IF Signed(t) THEN "i" ELSE "u") \o ToString(ptr)
    ELSE t

\* the max value computed as <$to>::MAX as $from, which rounds up
MaxCastableByAs(f, t) == AsIntFloat(t, f, MaxBits(t))

\* the precomputed max value of the pair
MaxCastable(f, t) ==
    IF f = "f32" /\ t = "u128" THEN INFINITY(f)    \* f32::INFINITY
    ELSE FloatLit(f, MaxCastableMag(f, MaxCastableEntry(t)))

\* whether the float is an integer, decided from its exponent and mantissa
is_int(f, b) ==
    LET exponent == ToNat(ExponentField(f, b))
        bias     == ToNat(EXPONENT_BIAS(f))
    IN  IF exponent = 0 THEN b \cap MANTISSA_MASK(f) = {}
        ELSE IF exponent = ToNat(EXPONENT_MASK(f)) THEN FALSE
        ELSE IF exponent < bias THEN FALSE              \* checked_sub: None
        ELSE LET mask == IF exponent - bias >= TOTAL_BITS(f)
                         THEN {}                        \* checked_shr: None
                         ELSE Shr(MANTISSA_MASK(f), exponent - bias)
             IN  b \cap mask = {}

\* match ok { true => Ok(to), false => Err(LossyCastError {from, to}) }
OkOrLossy(ok, f, t) == IF ok THEN Ok(t) ELSE Err(LossyCastError(f, t))

\* CastImpl::cast_impl of cast!(float_to_int ...)
cast_impl_float_to_int(f, t, b) ==
    OkOrLossy(/\ is_int(f, b)
              /\ FloatGe(f, b, AsIntFloat(t, f, MinBits(t)))
              /\ FloatLe(f, b, MaxCastable(f, t)),
              b, AsFloatInt(f, t, b))

\* closest_float_to_int without the call of round
closest_float_to_int_truncating(f, t, e) == AsFloatInt(f, t, e.from)

\* the std build: self.from.round() as $to
closest_float_to_int(f, t, e) == AsFloatInt(f, t, round(f, e.from))

\* the build without std: (self.from + 0.5) as $to for a sign-positive
\* source, (self.from - 0.5) as $to otherwise; the sum is a float of the
\* source type, the exact sum rounded to nearest, ties to even, and an
\* infinity or a NaN stays what it is
closest_float_to_int_no_std(f, t, e) ==
    LET v == FloatVal(f, e.from)
    IN  IF v.kind # "fin" THEN AsFloatInt(f, t, e.from)
        ELSE AsFloatInt(f, t, RoundToFloat(f, Fin(v.neg, AddBit(v.mag, 0 - 1))))

(***************************************************************************)
(* integer -> float: cast!(int_to_float ...)                               *)
(***************************************************************************)
\* the round trip with any Ok accepted, whatever its value
RoundTripsAnyOk(f, t, b, value) == IsOk(cast_impl_float_to_int(t, f, value))

\* the round trip of value through CastImpl<$from> for $to gives self
RoundTrips(f, t, b, value) == cast_impl_float_to_int(t, f, value) = Ok(b)

\* the match of cast_impl_int_to_float on the round trip of value
match_round_trip(f, t, b, value) == OkOrLossy(RoundTrips(f, t, b, value), b, value)

\* CastImpl::cast_impl of cast!(int_to_float ...)
cast_impl_int_to_float(f, t, b) == match_round_trip(f, t, b, AsIntFloat(f, t, b))

\* Closest of cast!(int_to_float ...) without the match on the infinities
closest_int_to_float_raw(f, t, e) == e.to

\* Closest for the LossyCastError of cast!(int_to_float ...): the raw cast,
\* but MAX or MIN where it overflowed to an infinity
closest_int_to_float(f, t, e) ==
    IF e.to = INFINITY(t) THEN FloatMAX(t)
    ELSE IF e.to = NEG_INFINITY(t) THEN FloatMIN(t)
    ELSE e.to

(***************************************************************************)
(* float -> float                                                          *)
(***************************************************************************)
cast_impl_float_to_self(f, b) == OkOrLossy(~is_nan(f, b), b, b)

closest_float_to_self(e) == e.from

\* impl CastImpl<f64> for f32
cast_impl_f32_to_f64(b) ==
    OkOrLossy(~is_nan("f32", b), b, AsFloatFloat("f32", "f64", b))

closest_f32_to_f64(e) == e.to

\* the comparison taken for true unless the narrowed value left the finite
\* range the source was in
WidensToUnlessOverflow(value, b) ==
    ExponentField("f32", value) = EXPONENT_MASK("f32")
        => ExponentField("f64", b) = EXPONENT_MASK("f64")

\* f64::from(value) == self
WidensTo(value, b) == FloatEq("f64", AsFloatFloat("f32", "f64", value), b)

\* the match of CastImpl<f32> for f64 on the comparison
match_widened(b, value) == OkOrLossy(WidensTo(value, b), b, value)

\* impl CastImpl<f32> for f64
cast_impl_f64_to_f32(b) == match_widened(b, AsFloatFloat("f64", "f32", b))

\* Closest<f32> for LossyCastError<f64, f32> without the match on the
\* infinities
closest_f64_to_f32_raw(e) == e.to

\* Closest<f32> for LossyCastError<f64, f32>: the raw cast, but MAX or MIN
\* where a finite source overflowed to an infinity
closest_f64_to_f32(e) ==
    IF e.to = INFINITY("f32") /\ ~FloatEq("f64", e.from, INFINITY("f64"))
    THEN FloatMAX("f32")
    ELSE IF e.to = NEG_INFINITY("f32")
            /\ ~FloatEq("f64", e.from, NEG_INFINITY("f64"))
    THEN FloatMIN("f32")
    ELSE e.to

(***************************************************************************)
(* The round-trip classification: cast!(floating ...) (primitives.rs,      *)
(* num/src/cast.rs)                                                        *)
(***************************************************************************)
\* the pairs the cast!(floating ...) invocations list
HasFloating(f, t) ==
    \/ f \in {"u32", "u64", "u128", "usize", "i32", "i64", "i128", "isize"}
       /\ t = "f32"
    \/ f \in {"u64", "u128", "usize", "i64", "i128", "isize"} /\ t = "f64"
    \/ f \in FloatTypes /\ t \in PrimitiveTypes

\* CastImpl::cast_impl of cast!(floating ...):
\* match self == (self as $to) as $from, the == of the source type
cast_impl_floating(f, t, b) ==
    LET back == As(t, f, As(f, t, b))
    IN  OkOrLossy(IF f \in FloatTypes THEN FloatEq(f, b, back) ELSE b = back,
                  b, As(f, t, b))

(***************************************************************************)
(* Which implementation each pair of primitive types gets.                 *)
(***************************************************************************)
MacroOf(f, t) ==
    CASE f \in IntTypes /\ t \in IntTypes -> "integer"
      [] f \in {"u8", "u16", "i8", "i16"} /\ t \in FloatTypes -> "integer"
      [] f \in {"u32", "i32"} /\ t = "f64" -> "integer"
      [] f \in IntTypes /\ t \in FloatTypes -> "int_to_float"
      [] f \in FloatTypes /\ t \in IntTypes -> "float_to_int"
      [] f \in FloatTypes /\ f = t -> "float_to_self"
      [] f = "f32" /\ t = "f64" -> "f32_to_f64"
      [] f = "f64" /\ t = "f32" -> "f64_to_f32"

\* CastImpl::cast_impl for a pair of primitive types
cast_impl_primitive(f, t, b) ==
    CASE MacroOf(f, t) = "integer" -> cast_impl_integer(f, t, b)
      [] MacroOf(f, t) = "int_to_float" -> cast_impl_int_to_float(f, t, b)
      [] MacroOf(f, t) = "float_to_int" -> cast_impl_float_to_int(f, t, b)
      [] MacroOf(f, t) = "float_to_self" -> cast_impl_float_to_self(f, b)
      [] MacroOf(f, t) = "f32_to_f64" -> cast_impl_f32_to_f64(b)
      [] MacroOf(f, t) = "f64_to_f32" -> cast_impl_f64_to_f32(b)

\* Closest::closest for the LossyCastError of a pair of primitive types
closest_primitive(f, t, e) ==
    CASE MacroOf(f, t) = "integer" -> closest_integer(f, t, e)
      [] MacroOf(f, t) = "int_to_float" -> closest_int_to_float(f, t, e)
      [] MacroOf(f, t) = "float_to_int" -> closest_float_to_int(f, t, e)
      [] MacroOf(f, t) = "float_to_self" -> closest_float_to_self(e)
      [] MacroOf(f, t) = "f32_to_f64" -> closest_f32_to_f64(e)
      [] MacroOf(f, t) = "f64_to_f32" -> closest_f64_to_f32(e)

(***************************************************************************)
(* The follow-on extension traits on a Result (impls/blanket.rs).          *)
(***************************************************************************)
\* Lossy with the fields of the error exchanged
lossy_from(r) == IF IsOk(r) THEN r.value ELSE r.error.from

\* Lossy for Result: self.unwrap_or_else(Lossy::lossy), the error's `to`
lossy(r) == IF IsOk(r) THEN r.value ELSE r.error.to

\* Closest for Result: self.unwrap_or_else(Closest::closest)
closest(f, t, r) == IF IsOk(r) THEN r.value ELSE closest_primitive(f, t, r.error)

\* AssumedLossless with assert! in place of debug_assert!
assumed_lossless_asserted(r) ==
    IF IsOk(r) THEN [panic |-> FALSE, value |-> r.value] ELSE [panic |-> TRUE]

\* AssumedLossless for Result: the debug assertion fails on an error when
\* debug assertions are on; otherwise the lossy value is used
assumed_lossless(r) ==
    IF IsOk(r) THEN [panic |-> FALSE, value |-> r.value]
    ELSE IF debug THEN [panic |-> TRUE]
    ELSE [panic |-> FALSE, value |-> r.error.to]

(***************************************************************************)
(* primitive -> NonZero*: cast!(from_primitive ...) and                    *)
(* cast!(from_float_to_signed ...) (impls/nonzero.rs)                      *)
(***************************************************************************)
\* <$nonzero>::new(primitive): None for 0
NonZeroNew(b) == IF b = {} THEN [tag |-> "None"] ELSE [tag |-> "Some", value |-> b]

\* Option::ok_or_else with a closure giving the error e
ok_or_else(o, e) == IF o.tag = "None" THEN Err(e) ELSE Ok(o.value)

\* Option::unwrap_or_else with a closure giving v
unwrap_or_else(o, v) == IF o.tag = "None" THEN v ELSE o.value

\* new_after with new_unchecked in place of new
new_unchecked_after(primitive, e) ==
    IF IsErr(primitive) THEN Err(e) ELSE Ok(primitive.value)

\* new_after without the map_err of the Result
new_after_unmapped(primitive, e) ==
    IF IsErr(primitive) THEN primitive ELSE ok_or_else(NonZeroNew(primitive.value), e)

\* the ? operator on the mapped Result, then <$nonzero>::new(primitive)
new_after(primitive, e) ==
    IF IsErr(primitive) THEN Err(e) ELSE ok_or_else(NonZeroNew(primitive.value), e)

\* CastImpl::cast_impl of cast!(from_primitive ...) and of
\* cast!(from_float_to_signed ...)
cast_impl_from_primitive(f, n, b) ==
    new_after(cast_impl_primitive(f, NonZeroPrimitive(n), b), FailedCastError(b))

\* self.from.cast().closest(): the closest value of the root primitive
closest_root(f, n, e) ==
    closest(f, NonZeroPrimitive(n), cast_impl_primitive(f, NonZeroPrimitive(n), e.from))

\* closest_from_primitive re-wrapping the closest primitive unchecked, as
\* the casts from a NonZero* do
closest_from_primitive_unchecked(f, n, e) == closest_root(f, n, e)

\* Closest for FailedCastError<$primitive, $nonzero>: the closest primitive,
\* with 1 in place of 0
closest_from_primitive(f, n, e) ==
    unwrap_or_else(NonZeroNew(closest_root(f, n, e)), {0})

\* closest_from_float_to_signed without the test of the sign of the float
closest_from_float_ignoring_sign(f, n, e) ==
    unwrap_or_else(NonZeroNew(closest_root(f, n, e)), {0})

\* Closest for FailedCastError<$float, $signed_nonzero>: the closest
\* primitive, with 1 or -1 in place of 0 by the sign of the float
closest_from_float_to_signed(f, n, e) ==
    unwrap_or_else(NonZeroNew(closest_root(f, n, e)),
                   IF is_sign_positive(f, e.from) THEN {0}
                   ELSE Ones(Width(NonZeroPrimitive(n))))

\* Closest for Result, on a cast from a primitive to a NonZero*
closest_nonzero(f, n, r) ==
    IF IsOk(r) THEN r.value
    ELSE IF f \in FloatTypes /\ Signed(NonZeroPrimitive(n))
         THEN closest_from_float_to_signed(f, n, r.error)
         ELSE closest_from_primitive(f, n, r.error)

(***************************************************************************)
(* The pairs that are lossless by their types: cast!(lossless ...)         *)
(* (impls/primitives.rs, impls/nonzero.rs) and Lossless (impls/blanket.rs) *)
(***************************************************************************)
\* a table that lists every pair whose target is at least as wide
StaticLosslessBySize(f, t) == Width(f) <= Width(t)

\* the pairs of primitive types the cast!(lossless ...) tables list: the
\* portable ones, then those of the build's pointer width
StaticLossless(f, t) ==
    \/ f = "u8" /\ t \in {"u8", "u16", "u32", "u64", "u128", "i16", "i32",
                          "i64", "i128", "f32", "f64"}
    \/ f = "u16" /\ t \in {"u16", "u32", "u64", "u128", "i32", "i64", "i128",
                           "f32", "f64"}
    \/ f = "u32" /\ t \in {"u32", "u64", "u128", "i64", "i128", "f64"}
    \/ f = "u64" /\ t \in {"u64", "u128", "i128"}
    \/ f = "u128" /\ t \in {"u128"}
    \/ f = "usize" /\ t \in {"usize"}
    \/ f = "i8" /\ t \in {"i8", "i16", "i32", "i64", "i128", "f32", "f64"}
    \/ f = "i16" /\ t \in {"i16", "i32", "i64", "i128", "f32", "f64"}
    \/ f = "i32" /\ t \in {"i32", "i64", "i128", "f64"}
    \/ f = "i64" /\ t \in {"i64", "i128"}
    \/ f = "i128" /\ t \in {"i128"}
    \/ f = "isize" /\ t \in {"isize"}
    \/ f = "f32" /\ t \in {"f32", "f64"}
    \/ f = "f64" /\ t \in {"f64"}
    \/ /\ ptr = 16
       /\ \/ f = "usize" /\ t \in {"u16", "u32", "u64", "u128", "i32", "i64",
                                   "i128", "f32", "f64"}
          \/ f = "isize" /\ t \in {"i16", "i32", "i64", "i128", "f32", "f64"}
          \/ f \in {"u8", "u16"} /\ t \in {"usize"}
          \/ f \in {"u8", "i8", "i16"} /\ t \in {"isize"}
    \/ /\ ptr = 32
       /\ \/ f = "usize" /\ t \in {"u32", "u64", "u128", "i64", "i128", "f64"}
          \/ f = "isize" /\ t \in {"i32", "i64", "i128", "f64"}
          \/ f \in {"u8", "u16", "u32"} /\ t \in {"usize"}
          \/ f \in {"u8", "u16", "i8", "i16", "i32"} /\ t \in {"isize"}
    \/ /\ ptr = 64
       /\ \/ f = "usize" /\ t \in {"u64", "u128", "i128"}
          \/ f = "isize" /\ t \in {"i64", "i128"}
          \/ f \in {"u8", "u16", "u32", "u64"} /\ t \in {"usize"}
          \/ f \in {"u8", "u16", "u32", "i8", "i16", "i32", "i64"}
             /\ t \in {"isize"}

\* the primitive type behind a type: <$from as NonZeroPrimitive>::Primitive,
\* a primitive type being its own
Root(t) == IF t \in NonZeroTypes THEN NonZeroPrimitive(t) ELSE t

\* the tables of the 64-bit build taken on every build: the pairs that are
\* lossless when usize and isize have 64 bits
NonZeroLosslessAs64(n, t) ==
    LET W(y) == IF y \in {"usize", "isize"} THEN 64 ELSE Width(y)
        f == NonZeroPrimitive(n)
        r == Root(t)
    IN  \/ f \in UnsignedTypes /\ r \in UnsignedTypes /\ W(f) <= W(r)
        \/ f \in SignedTypes /\ r \in SignedTypes /\ W(f) <= W(r)
        \/ f \in UnsignedTypes /\ r \in SignedTypes /\ W(f) < W(r)
        \/ f \in UnsignedTypes /\ r \in FloatTypes /\ W(f) <= MANTISSA_DIGITS(r)
        \/ f \in SignedTypes /\ r \in FloatTypes /\ W(f) - 1 <= MANTISSA_DIGITS(r)

\* the pairs with a NonZero* source the cast!(lossless ...) tables list: the
\* portable ones, then those of the build's pointer width
NonZeroLossless(n, t) ==
    \/ n = "NonZeroU8" /\ t \in {"NonZeroU8", "NonZeroU16", "NonZeroU32",
                                 "NonZeroU64", "NonZeroU128", "NonZeroI16",
                                 "NonZeroI32", "NonZeroI64", "NonZeroI128",
                                 "u8", "u16", "u32", "u64", "u128", "i16",
                                 "i32", "i64", "i128", "f32", "f64"}
    \/ n = "NonZeroU16" /\ t \in {"NonZeroU16", "NonZeroU32", "NonZeroU64",
                                  "NonZeroU128", "NonZeroI32", "NonZeroI64",
                                  "NonZeroI128", "u16", "u32", "u64", "u128",
                                  "i32", "i64", "i128", "f32", "f64"}
    \/ n = "NonZeroU32" /\ t \in {"NonZeroU32", "NonZeroU64", "NonZeroU128",
                                  "NonZeroI64", "NonZeroI128", "u32", "u64",
                                  "u128", "i64", "i128", "f64"}
    \/ n = "NonZeroU64" /\ t \in {"NonZeroU64", "NonZeroU128", "NonZeroI128",
                                  "u64", "u128", "i128"}
    \/ n = "NonZeroU128" /\ t \in {"NonZeroU128", "u128"}
    \/ n = "NonZeroI8" /\ t \in {"NonZeroI8", "NonZeroI16", "NonZeroI32",
                                 "NonZeroI64", "NonZeroI128", "i8", "i16",
                                 "i32", "i64", "i128", "f32", "f64"}
    \/ n = "NonZeroI16" /\ t \in {"NonZeroI16", "NonZeroI32", "NonZeroI64",
                                  "NonZeroI128", "i16", "i32", "i64", "i128",
                                  "f32", "f64"}
    \/ n = "NonZeroI32" /\ t \in {"NonZeroI32", "NonZeroI64", "NonZeroI128",
                                  "i32", "i64", "i128", "f64"}
    \/ n = "NonZeroI64" /\ t \in {"NonZeroI64", "NonZeroI128", "i64", "i128"}
    \/ n = "NonZeroI128" /\ t \in {"NonZeroI128", "i128"}
    \/ n = "NonZeroUsize" /\ t \in {"NonZeroUsize", "usize"}
    \/ n = "NonZeroIsize" /\ t \in {"NonZeroIsize", "isize"}
    \/ /\ ptr = 16
       /\ \/ n = "NonZeroUsize" /\ t \in {"NonZeroU16", "NonZeroU32",
                                          "NonZeroU64", "NonZeroU128",
                                          "NonZeroI32", "NonZeroI64",
                                          "NonZeroI128", "u16", "u32", "u64",
                                          "u128", "i32", "i64", "i128", "f32",
                                          "f64"}
          \/ n = "NonZeroIsize" /\ t \in {"NonZeroI16", "NonZeroI32",
                                          "NonZeroI64", "NonZeroI128", "i16",
                                          "i32", "i64", "i128", "f32", "f64"}
          \/ n \in {"NonZeroU8", "NonZeroU16"} /\ t \in {"NonZeroUsize",
                                                         "usize"}
          \/ n \in {"NonZeroU8", "NonZeroI8", "NonZeroI16"}
             /\ t \in {"NonZeroIsize", "isize"}
    \/ /\ ptr = 32
       /\ \/ n = "NonZeroUsize" /\ t \in {"NonZeroU32", "NonZeroU64",
                                          "NonZeroU128", "NonZeroI64",
                                          "NonZeroI128", "u32", "u64", "u128",
                                          "i64", "i128", "f64"}
          \/ n = "NonZeroIsize" /\ t \in {"NonZeroI32", "NonZeroI64",
                                          "NonZeroI128", "i32", "i64", "i128",
                                          "f64"}
          \/ n \in {"NonZeroU8", "NonZeroU16", "NonZeroU32"}
             /\ t \in {"NonZeroUsize", "usize"}
          \/ n \in {"NonZeroU8", "NonZeroU16", "NonZeroI8",
                    "NonZeroI16", "NonZeroI32"}
             /\ t \in {"NonZeroIsize", "isize"}
    \/ /\ ptr = 64
       /\ \/ n = "NonZeroUsize" /\ t \in {"NonZeroU64", "NonZeroU128",
                                          "NonZeroI128", "u64", "u128",
                                          "i128"}
          \/ n = "NonZeroIsize" /\ t \in {"NonZeroI64", "NonZeroI128", "i64",
                                          "i128"}
          \/ n \in {"NonZeroU8", "NonZeroU16", "NonZeroU32", "NonZeroU64"}
             /\ t \in {"NonZeroUsize", "usize"}
          \/ n \in {"NonZeroU8", "NonZeroU16", "NonZeroU32", "NonZeroI8",
                    "NonZeroI16", "NonZeroI32", "NonZeroI64"}
             /\ t \in {"NonZeroIsize", "isize"}

\* unwrap_unchecked on an Err is undefined behaviour: the build may hand
\* back either field of the error as the value
unwrap_unchecked(r) ==
    IF IsOk(r) THEN {[panic |-> FALSE, value |-> r.value]}
    ELSE {[panic |-> FALSE, value |-> v] : v \in {r.error.to, r.error.from}}

\* Lossless for Result: debug_assert!(self.is_ok()), then
\* unsafe {self.unwrap_unchecked()}; the set of the outcomes
lossless(r) ==
    IF debug /\ ~IsOk(r) THEN {[panic |-> TRUE]} ELSE unwrap_unchecked(r)

(***************************************************************************)
(* NonZero* -> NonZero* and NonZero* -> primitive: cast!(from_nonzero ...) *)
(* and cast!(lossless ...) (impls/nonzero.rs)                              *)
(***************************************************************************)
\* a cast that did not return: the process was aborted
Abort == [tag |-> "Abort"]

\* <$nonzero>::new_unchecked(value): undefined behaviour for 0, where the
\* build either wraps the 0 or, checking the precondition under debug
\* assertions, aborts; the set of the outcomes
new_unchecked(b) ==
    IF b # {} THEN {[abort |-> FALSE, value |-> b]}
    ELSE {[abort |-> FALSE, value |-> {}]}
         \cup (IF debug THEN {[abort |-> TRUE]} ELSE {})

\* the two arms of the match in cast_impl of cast!(from_nonzero ...) to a
\* NonZero*, r being self.get().cast()
match_from_nonzero(r, b) ==
    IF IsOk(r)
    THEN {IF w.abort THEN Abort ELSE Ok(w.value) : w \in new_unchecked(r.value)}
    ELSE {IF w.abort THEN Abort ELSE Err(LossyCastError(b, w.value)) :
             w \in new_unchecked(r.error.to)}

\* map_err_from_nonzero with the fields of the error exchanged
map_err_from_nonzero_exchanged(r, b) ==
    IF IsOk(r) THEN {r} ELSE {Err(LossyCastError(r.error.to, b))}

\* CastImpl::cast_impl of cast!(from_nonzero ...) to a primitive:
\* self.get().cast().map_err(|error| Self::Error {from: self, to: error.to})
map_err_from_nonzero(r, b) ==
    IF IsOk(r) THEN {r} ELSE {Err(LossyCastError(b, r.error.to))}

\* CastImpl::cast_impl of cast!(lossless ...) with a NonZero* source:
\* Ok(self.get().cast().lossless()), wrapped by new_unchecked for a NonZero*
\* target; l is an outcome of lossless
ok_lossless(t, l) ==
    IF l.panic THEN {Abort}
    ELSE IF t \in NonZeroTypes
         THEN {IF w.abort THEN Abort ELSE Ok(w.value) : w \in new_unchecked(l.value)}
         ELSE {Ok(l.value)}

\* CastImpl::cast_impl for a NonZero* source n and a target t: the set of
\* the outcomes
cast_impl_nonzero(n, t, b) ==
    IF NonZeroLossless(n, t)
    THEN UNION {ok_lossless(t, l) :
                  l \in lossless(cast_impl_primitive(NonZeroPrimitive(n), Root(t), b))}
    ELSE IF t \in NonZeroTypes
         THEN match_from_nonzero(cast_impl_primitive(NonZeroPrimitive(n), Root(t), b), b)
         ELSE map_err_from_nonzero(cast_impl_primitive(NonZeroPrimitive(n), t, b), b)

\* Closest for LossyCastError<$from, $nonzero> of cast!(from_nonzero ...):
\* <$nonzero>::new_unchecked(LossyCastError {from: self.from.get(),
\* to: self.to.get()}.closest()); to a primitive, without the wrapping
closest_from_nonzero(n, t, e) ==
    IF t \in NonZeroTypes
    THEN {IF w.abort THEN [panic |-> TRUE] ELSE [panic |-> FALSE, value |-> w.value] :
             w \in new_unchecked(closest_primitive(NonZeroPrimitive(n), Root(t), e))}
    ELSE {[panic |-> FALSE, value |-> closest_primitive(NonZeroPrimitive(n), t, e)]}

\* Closest for Result, on a cast from a NonZero*
closest_of_nonzero(n, t, r) ==
    IF IsOk(r) THEN {[panic |-> FALSE, value |-> r.value]}
    ELSE closest_from_nonzero(n, t, r.error)

(***************************************************************************)
(* Bitwise (impls/bitwise.rs).                                             *)
(***************************************************************************)
\* to_ne_bytes / from_ne_bytes: the bytes of a value, least significant first
to_ne_bytes(w, b) == [k \in 1..(w \div 8) |-> {i - 8 * (k - 1) : i \in b \cap (8 * (k - 1))..(8 * k - 1)}]

from_ne_bytes(bytes) == UNION {Shl(bytes[k], 8 * (k - 1)) : k \in DOMAIN bytes}

\* the types each n-squared bitwise! row lists together, by their size
BitwiseGroup(t) ==
    CASE t \in {"u8", "i8"} -> 8
      [] t \in {"u16", "i16"} -> 16
      [] t \in {"u32", "i32", "f32"} -> 32
      [] t \in {"u64", "i64", "f64"} -> 64
      [] t \in {"u128", "i128"} -> 128
      [] OTHER -> 0

\* the bitwise! tables of a build whose pointer-sized types have w bits:
\* the portable rows (primitive, nonzero primitive, nonzero), then the rows
\* of platform_dependent
BitwiseTable(w, f, t) ==
    LET sized   == {"usize", "isize"}
        fixed   == {"u" \o ToString(w), "i" \o ToString(w)}
        nzsized == {"NonZeroUsize", "NonZeroIsize"}
        nzfixed == {"NonZeroU" \o ToString(w), "NonZeroI" \o ToString(w)}
    IN  \/ /\ f \in PrimitiveTypes /\ t \in PrimitiveTypes
           /\ BitwiseGroup(f) # 0 /\ BitwiseGroup(f) = BitwiseGroup(t)
        \/ /\ f \in NonZeroTypes /\ t \in PrimitiveTypes
           /\ BitwiseGroup(Root(f)) # 0 /\ BitwiseGroup(Root(f)) = BitwiseGroup(t)
        \/ /\ f \in NonZeroTypes /\ t \in NonZeroTypes
           /\ BitwiseGroup(Root(f)) # 0 /\ BitwiseGroup(Root(f)) = BitwiseGroup(Root(t))
        \/ f \in nzsized /\ t \in nzsized
        \/ f \in fixed /\ t \in sized
        \/ f \in sized /\ t \in fixed
        \/ f \in nzsized /\ t \in fixed
        \/ f \in nzfixed /\ t \in nzsized
        \/ f \in nzsized /\ t \in nzfixed

\* the tables of the 64-bit build taken on every build
HasBitwiseOn64(f, t) == BitwiseTable(64, f, t)

\* whether Bitwise is implemented for the Result of the cast from f to t
HasBitwise(f, t) == BitwiseTable(ptr, f, t)

\* <$to>::from_ne_bytes(original.to_ne_bytes()), unless the recovery of the
\* original panicked
reinterpret(w, original) ==
    IF original.panic THEN original
    ELSE [panic |-> FALSE, value |-> from_ne_bytes(to_ne_bytes(w, original.value))]

\* Bitwise for Result<$to, LossyCastError<$from, $to>>
bitwise(f, t, r) ==
    reinterpret(Width(f),
                IF IsOk(r)
                THEN assumed_lossless(cast_impl_primitive(t, f, r.value))
                ELSE [panic |-> FALSE, value |-> r.error.from])

(***************************************************************************)
(* The source values the model casts.                                      *)
(***************************************************************************)
\* the exponents k of the powers of two 2^k at which a target type's range
\* or a float's precision ends
EdgeExps == {7, 8, 15, 16, 23, 24, 25, 31, 32, 53, 54, 63, 64, 127, 128}

\* values the documentation and the tests use
Examples == {5, 7, 90, 260, 261, 300, 70000, 1000000000}

\* the bit patterns of the integer type t the model casts: 2^k + j and
\* 2^k - j (modulo 2^Width), the examples and their negations
IntSources(t) ==
    LET w == Width(t)
    IN  UNION {{({k} \cup Bits(j)) \cap Ones(w), Ones(k) \ Bits(j - 1)} :
                  k \in {e \in EdgeExps : e <= w}, j \in 1..EdgeSpan}
        \cup {{k} \cap Ones(w) : k \in {e \in EdgeExps : e <= w}}
        \cup {Bits(n) : n \in {e \in Examples : Bits(e) \subseteq Ones(w)}}
        \cup {TwosNeg(Bits(n), w) : n \in {e \in Examples : Bits(e) \subseteq Ones(w)}}

\* the exponent fields of the floats the model casts
FloatExpFields(f) ==
    LET bias == ToNat(EXPONENT_BIAS(f))
        maxe == ToNat(EXPONENT_MASK(f))
    IN  {0, 1, maxe - 1, maxe}
        \cup {k + bias : k \in {e \in EdgeExps \cup {-2, -1, 0, 1, 2, 22, 52} : e + bias < maxe}}
        \cup (IF f = "f64" THEN {k + bias : k \in {-150, -149, -127, -126}} ELSE {})

\* the mantissa fields of the floats the model casts
FloatMantissas(f) ==
    LET mb == MANTISSA_BITS(f)
    IN  {{}, MANTISSA_MASK(f), {mb - 2, mb - 3}}
        \cup {Bits(j) : j \in 1..EdgeSpan}
        \cup {MANTISSA_MASK(f) \ Bits(j) : j \in 1..EdgeSpan}
        \cup {Shl(Bits(j), mb - 2) : j \in 1..3}
        \cup (IF f = "f64"
              THEN {{29}, {28}, {28, 29}, {28, 0}, Ones(28), Ones(29)}
              ELSE {})

FloatSources(f) ==
    {FloatBits(f, s, e, m) :
        s \in BOOLEAN, e \in FloatExpFields(f), m \in FloatMantissas(f)}

Sources(t) == IF t \in FloatTypes THEN FloatSources(t) ELSE IntSources(t)

\* the values of a NonZero* type the model casts: those of its primitive
\* type but 0
NonZeroSources(n) == IntSources(NonZeroPrimitive(n)) \ {{}}

(***************************************************************************)
(* The state machine: a value is cast, then a follow-on trait is applied   *)
(* to the Result.                                                          *)
(***************************************************************************)
Init ==
    /\ ptr \in PointerWidths
    /\ debug \in BOOLEAN
    /\ pc = "idle"
    /\ from = "none"
    /\ to = "none"
    /\ x = {}
    /\ res = None
    /\ op = "none"
    /\ out = None

\* a cast between fixed-width types reads nothing of the pointer width: the
\* model explores it on the 64-bit build only
OnThisBuild(f, t) == ptr = 64 \/ {f, t} \cap {"usize", "isize"} # {}

\* Cast::cast of a value of a primitive type of F to a primitive type of T
CastPrimitive(F, T) ==
    /\ pc = "idle"
    /\ \E f \in F, t \in T :
         \E b \in Sources(f) :
            /\ OnThisBuild(f, t)
            /\ from' = f
            /\ to' = t
            /\ x' = b
            /\ res' = cast_impl_primitive(f, t, b)
    /\ pc' = "cast"
    /\ op' = "cast"
    /\ UNCHANGED <<ptr, debug, out>>

\* a cast of a pair of cast!(floating ...)
CastFloating ==
    /\ pc = "idle"
    /\ \E f \in PrimitiveTypes, t \in PrimitiveTypes :
         \E b \in Sources(f) :
            /\ HasFloating(f, t)
            /\ OnThisBuild(f, t)
            /\ from' = f
            /\ to' = t
            /\ x' = b
            /\ res' = cast_impl_floating(f, t, b)
    /\ pc' = "done"
    /\ op' = "cast_floating"
    /\ UNCHANGED <<ptr, debug, out>>

CastIntToInt == CastPrimitive(IntTypes, IntTypes)

CastIntToFloat == CastPrimitive(IntTypes, FloatTypes)

CastFloatToInt == CastPrimitive(FloatTypes, IntTypes)

CastFloatToFloat == CastPrimitive(FloatTypes, FloatTypes)

\* Cast::cast of a value of a primitive type to a NonZero* type
CastPrimitiveToNonZero ==
    /\ pc = "idle"
    /\ \E f \in PrimitiveTypes, n \in NonZeroTypes :
         \E b \in Sources(f) :
            /\ OnThisBuild(f, NonZeroPrimitive(n))
            /\ from' = f
            /\ to' = n
            /\ x' = b
            /\ res' = cast_impl_from_primitive(f, n, b)
    /\ pc' = "cast"
    /\ op' = "cast"
    /\ UNCHANGED <<ptr, debug, out>>

\* Cast::cast of a value of a NonZero* type to a NonZero* or primitive type
CastNonZero ==
    /\ pc = "idle"
    /\ \E n \in NonZeroTypes, t \in NonZeroTypes \cup PrimitiveTypes :
         \E b \in NonZeroSources(n) :
            /\ OnThisBuild(NonZeroPrimitive(n), Root(t))
            /\ from' = n
            /\ to' = t
            /\ x' = b
            /\ res' \in cast_impl_nonzero(n, t, b)
    /\ pc' = "cast"
    /\ op' = "cast"
    /\ UNCHANGED <<ptr, debug, out>>

Follow(name, value) ==
    /\ pc = "cast"
    /\ pc' = "done"
    /\ op' = name
    /\ out' = value
    /\ UNCHANGED <<ptr, debug, from, to, x, res>>

\* Lossy is implemented for LossyCastError, which every cast has as its
\* error but the casts from a primitive to a NonZero*
DoLossy ==
    /\ from \in NonZeroTypes \/ to \in PrimitiveTypes
    /\ IsOk(res) \/ IsErr(res)
    /\ Follow("lossy", [panic |-> FALSE, value |-> lossy(res)])

DoClosest ==
    /\ from \in PrimitiveTypes
    /\ Follow("closest",
              [panic |-> FALSE,
               value |-> IF to \in NonZeroTypes
                         THEN closest_nonzero(from, to, res)
                         ELSE closest(from, to, res)])

\* Closest on the Result of a float -> integer cast in the build without std
DoClosestNoStd ==
    /\ from \in FloatTypes /\ to \in IntTypes
    /\ Follow("closest_no_std",
              [panic |-> FALSE,
               value |-> IF IsOk(res) THEN res.value
                         ELSE closest_float_to_int_no_std(from, to, res.error)])

DoAssumedLossless ==
    /\ from \in NonZeroTypes \/ to \in PrimitiveTypes
    /\ IsOk(res) \/ IsErr(res)
    /\ Follow("assumed_lossless", assumed_lossless(res))

DoBitwise ==
    /\ from \in PrimitiveTypes /\ to \in PrimitiveTypes
    /\ HasBitwise(from, to)
    /\ Follow("bitwise", bitwise(from, to, res))

\* Closest on the Result of a cast from a NonZero*
DoClosestOfNonZero ==
    /\ from \in NonZeroTypes
    /\ IsOk(res) \/ IsErr(res)
    /\ \E o \in closest_of_nonzero(from, to, res) : Follow("closest", o)

\* Lossless on the Result of a cast of a pair that is lossless by its types
DoLossless ==
    /\ \/ from \in NonZeroTypes /\ NonZeroLossless(from, to)
       \/ from \in PrimitiveTypes /\ StaticLossless(from, to)
    /\ IsOk(res) \/ IsErr(res)
    /\ \E o \in lossless(res) : Follow("lossless", o)

\* CastImpl::cast_impl for any supported pair: the set of the outcomes
cast_impl(f, t, b) ==
    IF f \in NonZeroTypes THEN cast_impl_nonzero(f, t, b)
    ELSE IF t \in NonZeroTypes THEN {cast_impl_from_primitive(f, t, b)}
    ELSE {cast_impl_primitive(f, t, b)}

\* Bitwise for Result<$to, LossyCastError<$from, $to>> of the arms
\* (nonzero primitive ...) and (nonzero nonzero ...) of bitwise!: the
\* original as a primitive, an Ok value cast back to the primitive of $from
\* under assumed_lossless, then its bytes as $to, through new_unchecked for
\* a NonZero* target; the set of the outcomes
bitwise_nonzero(n, t, r) ==
    LET original_primitive ==
            IF IsOk(r)
            THEN {IF c = Abort THEN [panic |-> TRUE] ELSE assumed_lossless(c) :
                     c \in cast_impl(t, Root(n), r.value)}
            ELSE {[panic |-> FALSE, value |-> r.error.from]}
        bytes == {reinterpret(Width(Root(n)), o) : o \in original_primitive}
    IN  IF t \in PrimitiveTypes THEN bytes
        ELSE UNION {IF p.panic THEN {p}
                    ELSE {IF w.abort THEN [panic |-> TRUE]
                          ELSE [panic |-> FALSE, value |-> w.value] :
                             w \in new_unchecked(p.value)} : p \in bytes}

\* Bitwise on the Result of a cast from a NonZero*
DoBitwiseOfNonZero ==
    /\ from \in NonZeroTypes
    /\ HasBitwise(from, to)
    /\ IsOk(res) \/ IsErr(res)
    /\ \E o \in bitwise_nonzero(from, to, res) : Follow("bitwise", o)

\* the value of an Ok cast back to the type it came from, as bitwise does
\* to recover the original: value.cast::<$from>()
CastBack ==
    /\ IsOk(res)
    /\ \E r \in cast_impl(to, from, res.value) :
          Follow("cast_back", [panic |-> FALSE, value |-> r])

\* the value lossless() gave, cast back to the type it came from
CastBackLossless ==
    /\ pc = "done"
    /\ op = "lossless"
    /\ ~out.panic
    /\ \E r \in cast_impl(to, from, out.value) :
          out' = [panic |-> FALSE, lossless |-> out.value, value |-> r]
    /\ pc' = "back"
    /\ op' = "cast_back"
    /\ UNCHANGED <<ptr, debug, from, to, x, res>>

FollowOn == DoLossy \/ DoClosest \/ DoAssumedLossless \/ DoBitwise

NextInt == CastIntToInt \/ FollowOn

SpecInt == Init /\ [][NextInt]_vars

NextFloatToInt == CastFloatToInt \/ FollowOn

SpecFloatToInt == Init /\ [][NextFloatToInt]_vars

\* float -> integer casts and Closest in the builds with and without std
SpecNoStd == Init /\ [][CastFloatToInt \/ DoClosest \/ DoClosestNoStd]_vars

\* the casts of the round-trip classification
SpecFloating == Init /\ [][CastFloating]_vars

NextIntToFloat == CastIntToFloat \/ FollowOn

SpecIntToFloat == Init /\ [][NextIntToFloat]_vars

NextFloat == CastFloatToFloat \/ FollowOn

SpecFloat == Init /\ [][NextFloat]_vars

\* Closest is the one follow-on trait of a cast from a primitive to a NonZero*
NextNonZero == CastPrimitiveToNonZero \/ DoClosest

SpecNonZero == Init /\ [][NextNonZero]_vars

\* every cast from a float, and from an integer to a NonZero*, with Closest
NextClosest ==
    \/ CastFloatToInt
    \/ CastFloatToFloat
    \/ CastPrimitiveToNonZero
    \/ DoClosest

SpecClosest == Init /\ [][NextClosest]_vars

\* every cast between two primitive types
NextPrimitive ==
    \/ CastIntToInt
    \/ CastIntToFloat
    \/ CastFloatToInt
    \/ CastFloatToFloat
    \/ FollowOn

SpecPrimitive == Init /\ [][NextPrimitive]_vars

\* every cast from a NonZero* type
NextFromNonZero ==
    \/ CastNonZero
    \/ DoLossy
    \/ DoClosestOfNonZero
    \/ DoAssumedLossless

SpecFromNonZero == Init /\ [][NextFromNonZero]_vars

\* the casts of the pairs that can be lossless by their types
NextLossless ==
    \/ CastIntToInt
    \/ CastIntToFloat
    \/ CastFloatToFloat
    \/ CastNonZero
    \/ DoLossless

SpecLossless == Init /\ [][NextLossless]_vars

\* the casts of the pairs that can be lossless by their types, Lossless and
\* the cast back of its value
SpecLosslessRoundTrip == Init /\ [][NextLossless \/ CastBackLossless]_vars

\* every cast of a primitive or a NonZero* source, and bitwise on its Result
SpecBitwise ==
    Init /\ [][CastIntToInt \/ CastIntToFloat \/ CastFloatToInt
                  \/ CastFloatToFloat \/ CastNonZero \/ DoBitwise
                  \/ DoBitwiseOfNonZero]_vars

\* every cast, and the cast back of its Ok value
NextRoundTrip ==
    \/ CastIntToInt
    \/ CastIntToFloat
    \/ CastFloatToInt
    \/ CastFloatToFloat
    \/ CastPrimitiveToNonZero
    \/ CastNonZero
    \/ CastBack

SpecRoundTrip == Init /\ [][NextRoundTrip]_vars

Next ==
    \/ CastIntToInt
    \/ CastIntToFloat
    \/ CastFloatToInt
    \/ CastFloatToFloat
    \/ CastPrimitiveToNonZero
    \/ CastNonZero
    \/ FollowOn
    \/ DoClosestOfNonZero
    \/ DoLossless
    \/ CastBack
    \/ CastBackLossless
    \/ DoBitwiseOfNonZero
    \/ DoClosestNoStd
    \/ CastFloating

Spec == Init /\ [][Next]_vars

(***************************************************************************)
(* Properties of the casts.                                                *)
(***************************************************************************)
\* a cast has been made between two types of the given sets
Casted(F, T) == pc # "idle" /\ from \in F /\ to \in T

\* C1: for every pair of integer types and every source value x,
\* cast::<To>(x) is Ok(y) if and only if To::MIN <= x <= To::MAX, and then y
\* has the mathematical value of x; otherwise it is Err.
C1_IntegerCastOkIffInRange ==
    Casted(IntTypes, IntTypes) =>
        LET v == IntVal(from, x)
            within == /\ ~ValLt(v, IntVal(to, MinBits(to)))
                      /\ ~ValLt(IntVal(to, MaxBits(to)), v)
        IN  /\ IsOk(res) <=> within
            /\ IsOk(res) => ValEq(IntVal(to, res.value), v)
            /\ ~within => IsErr(res)

\* -7isize cast to u16 is an error
C1_NegativeToUnsignedIsErr ==
    /\ pc = "cast" /\ from = "isize" /\ to = "u16"
    /\ x = TwosNeg(Bits(7), ptr)
    /\ IsErr(res)

\* C2: for every float x and integer target, cast::<To>(x) is Ok(y) if and
\* only if x is finite, has no fractional part and To::MIN <= x <= To::MAX
\* as mathematical values; then y equals x.  Both zeros are Ok(0), and the
\* float 2^(N-1) (signed) or 2^N (unsigned) is Err.
C2_FloatToIntOkIffIntegralInRange ==
    Casted(FloatTypes, IntTypes) =>
        LET v == FloatVal(from, x)
            exact == /\ v.kind = "fin"
                     /\ \A i \in v.mag : i >= 0
                     /\ ~ValLt(v, IntVal(to, MinBits(to)))
                     /\ ~ValLt(IntVal(to, MaxBits(to)), v)
        IN  /\ IsOk(res) <=> exact
            /\ IsOk(res) => ValEq(IntVal(to, res.value), v)
            /\ (v.kind = "fin" /\ v.mag = {}) => res = Ok({})
            /\ (v.kind = "fin" /\ ~v.neg
                  /\ v.mag = {IF Signed(to) THEN Width(to) - 1 ELSE Width(to)})
               => IsErr(res)

\* 2^31 as an f32 cast to i32 is an error, though i32::MAX as f32 is 2^31
C2_PowerAboveMaxIsErr ==
    /\ pc = "cast" /\ from = "f32" /\ to = "i32"
    /\ FloatVal("f32", x) = Fin(FALSE, {31})
    /\ AsIntFloat("i32", "f32", MaxBits("i32")) = x
    /\ IsErr(res)

\* C3: for every integer x and float target F, cast::<F>(x) is Ok(y) if and
\* only if x is exactly representable in F, and then y has the value of x:
\* an integer whose significant bits fit the mantissa digits (24, 53) is Ok
\* and one needing a bit more is Err.
C3_IntToFloatOkIffRepresentable ==
    Casted(IntTypes, FloatTypes) =>
        LET v == IntVal(from, x)
            fits == \/ v.mag = {}
                    \/ /\ MaxOf(v.mag) - MinOf(v.mag) < MANTISSA_DIGITS(to)
                       /\ MaxOf(v.mag) <= ToNat(EXPONENT_BIAS(to))
        IN  /\ IsOk(res) <=> fits
            /\ IsOk(res) => ValEq(FloatVal(to, res.value), v)

\* i64::MIN cast to f32 is Ok
C3_MinOfI64ToF32IsOk ==
    /\ pc = "cast" /\ from = "i64" /\ to = "f32"
    /\ x = MinBits("i64")
    /\ IsOk(res)
    /\ FloatVal("f32", res.value) = Fin(TRUE, {63})

\* C4: a NaN cast to a floating point type (f32 to f32, f64 to f64, f32 to
\* f64, f64 to f32) is Ok.
C4_NaNToFloatIsOk ==
    (Casted(FloatTypes, FloatTypes) /\ is_nan(from, x)) => IsOk(res)

\* C5: for every pair of primitive types and every source value x,
\* cast::<To>(x).lossy() equals x as To (two NaNs count as equal); when the
\* cast is Err, the error's from is x and its to is x as To.
C5_LossyIsAs ==
    Casted(PrimitiveTypes, PrimitiveTypes) =>
        LET same(a, b) == \/ a = b
                          \/ to \in FloatTypes /\ is_nan(to, a) /\ is_nan(to, b)
        IN  /\ op = "lossy" =>
                  ~out.panic /\ same(out.value, As(from, to, x))
            /\ IsErr(res) =>
                  /\ res.error.from = x
                  /\ same(res.error.to, As(from, to, x))

\* 260u32 cast to u8 is an error with from = 260 and to = 4, and lossy is 4
C5_TruncatedExample ==
    /\ op = "lossy" /\ from = "u32" /\ to = "u8"
    /\ x = Bits(260)
    /\ res = Err(LossyCastError(Bits(260), Bits(4)))
    /\ out.value = Bits(4)

\* C6: for every pair of integer types and every source value x,
\* cast::<To>(x).closest() is x when To::MIN <= x <= To::MAX, To::MIN when
\* x < To::MIN and To::MAX when x > To::MAX.
C6_IntegerClosestSaturates ==
    (Casted(IntTypes, IntTypes) /\ op = "closest") =>
        LET v == IntVal(from, x)
        IN  /\ ~out.panic
            /\ out.value =
                 IF ValLt(v, IntVal(to, MinBits(to))) THEN MinBits(to)
                 ELSE IF ValLt(IntVal(to, MaxBits(to)), v) THEN MaxBits(to)
                 ELSE IntBits(to, v)

\* 1_000_000_000u64 cast to u8 has the closest value 255
C6_BillionToU8 ==
    /\ op = "closest" /\ from = "u64" /\ to = "u8"
    /\ x = Bits(1000000000)
    /\ IsErr(res)
    /\ out.value = Bits(255)

\* C7: for every float x that is not NaN and every integer target,
\* cast::<To>(x).closest() is x rounded to the nearest integer, halves away
\* from zero, then saturated to To::MIN..To::MAX; +infinity gives To::MAX
\* and -infinity gives To::MIN.
C7_FloatToIntClosestRounds ==
    (Casted(FloatTypes, IntTypes) /\ op = "closest" /\ ~is_nan(from, x)) =>
        LET v == FloatVal(from, x)
            whole == {i \in v.mag : i >= 0}
            nearest == Fin(v.neg, IF -1 \in v.mag THEN AddBit(whole, 0) ELSE whole)
        IN  /\ ~out.panic
            /\ out.value =
                 IF v.kind = "inf" THEN (IF v.neg THEN MinBits(to) ELSE MaxBits(to))
                 ELSE IF ValLt(nearest, IntVal(to, MinBits(to))) THEN MinBits(to)
                 ELSE IF ValLt(IntVal(to, MaxBits(to)), nearest) THEN MaxBits(to)
                 ELSE IntBits(to, nearest)

\* -0.5f32 cast to i8 has the closest value -1
C7_MinusHalfToMinusOne ==
    /\ op = "closest" /\ from = "f32" /\ to = "i8"
    /\ FloatVal("f32", x) = Fin(TRUE, {-1})
    /\ IsErr(res)
    /\ out.value = Ones(8)

\* C8: for every pair of same-size primitive types that has bitwise and
\* every source value x, cast::<To>(x).bitwise() is the bit pattern of x
\* read as To, whether the cast was Ok or Err.
C8_BitwiseIsTransmute ==
    (Casted(PrimitiveTypes, PrimitiveTypes) /\ op = "bitwise") =>
        out = [panic |-> FALSE,
               value |-> from_ne_bytes(to_ne_bytes(Width(from), x))]

\* C9: for every primitive x and NonZero target N over T, cast::<N>(x) is
\* Ok(n) if and only if cast::<T>(x) is Ok(v) with v # 0, and then n.get()
\* is v; a source equal to zero is always Err, with from equal to x.
C9_NonZeroOkIffPrimitiveOkAndNotZero ==
    Casted(PrimitiveTypes, NonZeroTypes) =>
        LET primitive == cast_impl_primitive(from, NonZeroPrimitive(to), x)
            zero == Val(from, x).kind = "fin" /\ Val(from, x).mag = {}
        IN  /\ IsOk(res) <=> (IsOk(primitive) /\ primitive.value # {})
            /\ IsOk(res) => res.value = primitive.value
            /\ zero => (IsErr(res) /\ res.error.from = x)

\* -0.0f64 cast to NonZeroI32 is an error carrying -0.0
C9_NegativeZeroIsErr ==
    /\ pc = "cast" /\ from = "f64" /\ to = "NonZeroI32"
    /\ x = {63}
    /\ IsOk(cast_impl_primitive("f64", "i32", x))
    /\ IsErr(res)
    /\ res.error.from = {63}

\* C10: a cast from a primitive to a NonZero* gives the from-only
\* FailedCastError only when the value of x as T would be zero; a lossy
\* cast with a value of x as T other than zero gives an error with from
\* and to.
C10_FailedOnlyWhenLossyValueIsZero ==
    (Casted(PrimitiveTypes, NonZeroTypes) /\ IsErr(res)) =>
        IF As(from, NonZeroPrimitive(to), x) = {}
        THEN res.error = FailedCastError(x)
        ELSE res.error = LossyCastError(x, As(from, NonZeroPrimitive(to), x))

\* C10, as the code has it: every failed cast from a primitive to a
\* NonZero* gives the from-only FailedCastError carrying x, whether or not
\* the value of x as T would be zero.
C10_EveryFailureIsFromOnly ==
    (Casted(PrimitiveTypes, NonZeroTypes) /\ IsErr(res)) =>
        res.error = FailedCastError(x)

\* 261u16 cast to NonZeroU8 fails with from = 261 and no to, though
\* 261u16 as u8 is 5
C10_LossyNotZeroExample ==
    /\ pc = "cast" /\ from = "u16" /\ to = "NonZeroU8"
    /\ x = Bits(261)
    /\ As("u16", "u8", x) = Bits(5)
    /\ res = Err(FailedCastError(Bits(261)))


\* C11: for every NonZero source and NonZero target, the `to` field of the
\* LossyCastError returned by a lossy cast holds a non-zero value: the cast
\* never fabricates a NonZero wrapping 0, also when the truncated primitive
\* value is 0 (NonZeroU16(256) -> NonZeroU8).
C11_LossyToIsNeverZero ==
    Casted(NonZeroTypes, NonZeroTypes) /\ IsErr(res) => res.error.to # {}

\* C12: for every NonZero source and NonZero target, cast(x).closest() is a
\* valid non-zero value within the target's range that is nearest to x:
\* re-wrapping the primitive closest value never wraps 0, in particular when
\* a negative source is cast to an unsigned NonZero target
\* (NonZeroI8(-5) -> NonZeroU8 gives 1, not 0).
C12_NonZeroClosestIsNearestNonZero ==
    Casted(NonZeroTypes, NonZeroTypes) /\ op = "closest" =>
        /\ ~out.panic
        /\ out.value # {}
        /\ out.value =
              IF InRange(Root(to), IntVal(Root(from), x))
              THEN IntBits(Root(to), IntVal(Root(from), x))
              ELSE IF ~IntVal(Root(from), x).neg THEN MaxBits(Root(to))
              ELSE IF Signed(Root(to)) THEN MinBits(Root(to))
              ELSE {0}

\* C13: for every primitive source x and NonZero target N over the primitive
\* T, cast::<N>(x).closest() is never zero: it is cast::<T>(x).closest() when
\* that is not zero, and otherwise 1, except that for a float source with the
\* sign bit set (-0.0 included) and a signed N it is -1.
C13_PrimitiveToNonZeroClosest ==
    Casted(PrimitiveTypes, NonZeroTypes) /\ op = "closest" =>
        /\ ~out.panic
        /\ out.value # {}
        /\ out.value =
              IF closest(from, Root(to), cast_impl_primitive(from, Root(to), x)) # {}
              THEN closest(from, Root(to), cast_impl_primitive(from, Root(to), x))
              ELSE IF from \in FloatTypes /\ SignBit(from, x) /\ Signed(Root(to))
                   THEN Ones(Width(Root(to)))
                   ELSE {0}

\* -0.0f64 -> NonZeroI32 has the closest value -1
C13_NegativeZeroToMinusOne ==
    /\ op = "closest" /\ from = "f64" /\ to = "NonZeroI32"
    /\ x = {63}
    /\ IsErr(res)
    /\ out.value = Ones(32)

\* C14: for a NaN source, closest() is 0 for every integer primitive target,
\* NaN for the targets f32 and f64, and for a NonZero target 1, or -1 when
\* the target is signed and the sign bit of the NaN is set.
C14_ClosestOfNaN ==
    Casted(FloatTypes, PrimitiveTypes \cup NonZeroTypes)
        /\ is_nan(from, x) /\ op = "closest" =>
        /\ ~out.panic
        /\ to \in IntTypes => out.value = {}
        /\ to \in FloatTypes => is_nan(to, out.value)
        /\ to \in NonZeroTypes =>
              out.value = IF Signed(Root(to)) /\ SignBit(from, x)
                          THEN Ones(Width(Root(to)))
                          ELSE {0}

\* a NaN with the sign bit set has the closest NonZeroI16 -1
C14_NegativeNaNToMinusOne ==
    /\ op = "closest" /\ from = "f32" /\ to = "NonZeroI16"
    /\ is_nan("f32", x) /\ SignBit("f32", x)
    /\ out.value = Ones(16)

\* C15: for every pair of types that has Lossless (the pairs lossless by
\* their types, f32 -> f32, f32 -> f64 and f64 -> f64 among them) and every
\* source value, cast returns Ok, so lossless() extracts an Ok (it reaches
\* neither its debug assertion nor unwrap_unchecked on an Err), and its
\* result is `x as To`.
C15_LosslessCastIsOk ==
    op = "lossless" =>
        /\ IsOk(res)
        /\ ~out.panic
        /\ Casted(PrimitiveTypes, PrimitiveTypes) => out.value = As(from, to, x)
        /\ Casted(NonZeroTypes, NonZeroTypes \cup PrimitiveTypes) =>
              out.value = As(Root(from), Root(to), x)

\* C16: assumed_lossless() applied to Ok(v) returns v without asserting;
\* applied to Err(e) it fails a debug assertion when debug assertions are
\* enabled and returns e.to, the value of lossy(), when they are disabled;
\* hence the assertion fires if and only if the cast was lossy.
C16_AssumedLosslessAssertsIffLossy ==
    op = "assumed_lossless" =>
        /\ IsOk(res) => out = [panic |-> FALSE, value |-> res.value]
        /\ IsErr(res) /\ debug => out.panic
        /\ IsErr(res) /\ ~debug =>
              out = [panic |-> FALSE, value |-> res.error.to]
        /\ debug => (out.panic <=> IsErr(res))
        /\ ~debug => ~out.panic

\* 261u16 cast to u8 and assumed lossless in a release build gives 5
C16_ReleaseGivesLossyValue ==
    /\ op = "assumed_lossless" /\ ~debug
    /\ from = "u16" /\ to = "u8" /\ x = Bits(261)
    /\ IsErr(res)
    /\ out = [panic |-> FALSE, value |-> Bits(5)]

\* C17: cast, lossy() and closest() are total: for every supported pair
\* of types and every source value they return a value without panicking,
\* overflowing or aborting; the only failure signal is the Err of cast and
\* the only abort is the debug assertion of assumed_lossless.
C17_CastLossyClosestAreTotal ==
    /\ pc # "idle" => IsOk(res) \/ IsErr(res)
    /\ op \in {"lossy", "closest"} => ~out.panic
    /\ op # "assumed_lossless" /\ pc = "done" => ~out.panic

\* C18: for every integer source x and float target F, cast::<F>(x).closest()
\* is finite: it is `x as F` unless `x as F` is infinite, and then F::MAX for
\* a positive x and F::MIN for a negative x (u128::MAX -> f32 is f32::MAX).
C18_IntToFloatClosestIsFinite ==
    Casted(IntTypes, FloatTypes) /\ op = "closest" =>
        /\ ~out.panic
        /\ ExponentField(to, out.value) # EXPONENT_MASK(to)
        /\ out.value =
              IF As(from, to, x) = INFINITY(to) THEN FloatMAX(to)
              ELSE IF As(from, to, x) = NEG_INFINITY(to) THEN FloatMIN(to)
              ELSE As(from, to, x)

\* u128::MAX -> f32: the raw cast is +infinity, the closest value f32::MAX
C18_U128MaxToF32Max ==
    /\ op = "closest" /\ from = "u128" /\ to = "f32"
    /\ x = Ones(128)
    /\ As("u128", "f32", x) = INFINITY("f32")
    /\ IsErr(res)
    /\ out.value = FloatMAX("f32")

\* C19: for float -> float casts, closest() maps +infinity to +infinity,
\* -infinity to -infinity and NaN to NaN, and a finite f64 whose raw
\* narrowing cast overflows to an infinity to f32::MAX (positive) or f32::MIN
\* (negative); in every other case it is the raw cast, so a finite source
\* never has an infinite closest value.
C19_FloatToFloatClosest ==
    Casted(FloatTypes, FloatTypes) /\ op = "closest" =>
        /\ ~out.panic
        /\ x = INFINITY(from) => out.value = INFINITY(to)
        /\ x = NEG_INFINITY(from) => out.value = NEG_INFINITY(to)
        /\ is_nan(from, x) => is_nan(to, out.value)
        /\ ExponentField(from, x) # EXPONENT_MASK(from) =>
              /\ ExponentField(to, out.value) # EXPONENT_MASK(to)
              /\ out.value =
                    IF As(from, to, x) = INFINITY(to) THEN FloatMAX(to)
                    ELSE IF As(from, to, x) = NEG_INFINITY(to) THEN FloatMIN(to)
                    ELSE As(from, to, x)

\* -2^128 as f64 -> f32: the raw cast is -infinity, the closest value f32::MIN
C19_FiniteOverflowToMin ==
    /\ op = "closest" /\ from = "f64" /\ to = "f32"
    /\ FloatVal("f64", x) = Fin(TRUE, {128})
    /\ As("f64", "f32", x) = NEG_INFINITY("f32")
    /\ IsErr(res)
    /\ out.value = FloatMIN("f32")

\* C20: whenever cast(x: A -> B) returns Ok(y) for a non-NaN x, the reverse
\* cast(y: B -> A) returns Ok(x') where x' reproduces x exactly: the same
\* value and the same representation (for floats the sign of a zero too).
C20_OkCastsBackToTheSource ==
    op = "cast_back" /\ ~(from \in FloatTypes /\ is_nan(from, x)) =>
        out.value = Ok(x)

\* C21: for every pair (A, B) that is lossless by its types and every value
\* x of A, converting A -> B with lossless() and then casting B -> A returns
\* Ok with a value whose bit pattern is that of x.
C21_LosslessRoundTrip ==
    op = "cast_back" /\ pc = "back" => out.value = Ok(x)

\* C22: for every NonZero source n and primitive target To, the cast behaves
\* as the cast of the primitive n.get(): it is Ok iff cast::<To>(n.get()) is
\* Ok, with the same Ok value; lossy() is `n.get() as To`; closest() is
\* cast::<To>(n.get()).closest(); the `from` of the error is n itself.
C22_NonZeroToPrimitiveDelegates ==
    Casted(NonZeroTypes, PrimitiveTypes) =>
        /\ IsOk(res) \/ IsErr(res)
        /\ IsOk(res) <=> IsOk(cast_impl_primitive(Root(from), to, x))
        /\ IsOk(res) => res = cast_impl_primitive(Root(from), to, x)
        /\ IsErr(res) => res.error.from = x
        /\ op = "lossy" => out = [panic |-> FALSE, value |-> As(Root(from), to, x)]
        /\ op = "closest" =>
              out = [panic |-> FALSE,
                     value |-> closest(Root(from), to,
                                       cast_impl_primitive(Root(from), to, x))]

\* NonZeroI32(-300) -> i8: the lossy value is -44
C22_Minus300ToMinus44 ==
    /\ op = "lossy" /\ from = "NonZeroI32" /\ to = "i8"
    /\ IntVal("i32", x) = Fin(TRUE, Bits(300))
    /\ IsErr(res)
    /\ IntVal("i8", out.value) = Fin(TRUE, Bits(44))

\* C23: a pair of primitive types (From, To) is marked lossless by its types
\* if and only if every value of From is exactly representable in To on the
\* build's pointer width: unsigned -> unsigned and signed -> signed iff
\* width(To) >= width(From); unsigned -> signed iff width(To) > width(From);
\* signed -> unsigned never; integer -> float iff the value bits of the
\* integer fit the mantissa digits of the float; f32 -> f32, f32 -> f64 and
\* f64 -> f64 yes; f64 -> f32 and float -> integer never.
C23_StaticLosslessIffRepresentable ==
    /\ pc = "idle" =>
          \A f \in PrimitiveTypes, t \in PrimitiveTypes :
             StaticLossless(f, t) <=>
                \/ f \in UnsignedTypes /\ t \in UnsignedTypes /\ Width(t) >= Width(f)
                \/ f \in SignedTypes /\ t \in SignedTypes /\ Width(t) >= Width(f)
                \/ f \in UnsignedTypes /\ t \in SignedTypes /\ Width(t) > Width(f)
                \/ f \in UnsignedTypes /\ t \in FloatTypes
                      /\ Width(f) <= (IF t = "f32" THEN 24 ELSE 53)
                \/ f \in SignedTypes /\ t \in FloatTypes
                      /\ Width(f) - 1 <= (IF t = "f32" THEN 24 ELSE 53)
                \/ <<f, t>> \in {<<"f32", "f32">>, <<"f32", "f64">>, <<"f64", "f64">>}
    /\ Casted(PrimitiveTypes, PrimitiveTypes) /\ StaticLossless(from, to) =>
          IF from \in FloatTypes /\ is_nan(from, x)
          THEN is_nan(to, As(from, to, x))
          ELSE ValEq(Val(to, As(from, to, x)), Val(from, x))
    /\ pc = "idle" =>
          \A f \in PrimitiveTypes, t \in PrimitiveTypes :
             ~StaticLossless(f, t) =>
                \E b \in Sources(f) :
                   /\ ~(f \in FloatTypes /\ is_nan(f, b))
                   /\ ~ValEq(Val(t, As(f, t, b)), Val(f, b))

\* on a 32-bit build usize -> f64 is lossless and u32::MAX as usize is cast
\* to f64 exactly
C23_UsizeToF64On32Bit ==
    /\ pc = "cast" /\ ptr = 32 /\ from = "usize" /\ to = "f64"
    /\ x = Ones(32)
    /\ StaticLossless(from, to)
    /\ ~StaticLossless("usize", "f32")
    /\ res = Ok(As("usize", "f64", x))

\* C24: on each supported pointer width W (16, 32, 64), Lossless is available
\* for a cast from or to usize / isize (and NonZeroUsize / NonZeroIsize)
\* exactly when it is available for the same cast with usize / isize replaced
\* by the W-bit type uW / iW (NonZeroUW / NonZeroIW).
C24_PointerSizedLosslessAsFixedWidth ==
    LET Fixed(y) ==
            CASE y = "usize" -> "u" \o ToString(ptr)
              [] y = "isize" -> "i" \o ToString(ptr)
              [] y = "NonZeroUsize" -> "NonZeroU" \o ToString(ptr)
              [] y = "NonZeroIsize" -> "NonZeroI" \o ToString(ptr)
              [] OTHER -> y
        Available(f, t) ==
            IF f \in NonZeroTypes THEN NonZeroLossless(f, t)
            ELSE t \in PrimitiveTypes /\ StaticLossless(f, t)
    IN  /\ pc = "idle" =>
              \A f \in PrimitiveTypes \cup NonZeroTypes,
                 t \in PrimitiveTypes \cup NonZeroTypes :
                 Available(f, t) <=> Available(Fixed(f), Fixed(t))
        /\ op = "lossless" => Available(Fixed(from), Fixed(to))

\* on a 16-bit build NonZeroUsize -> f32 is lossless, as NonZeroU16 -> f32 is
C24_NonZeroUsizeToF32On16Bit ==
    /\ op = "lossless" /\ ptr = 16 /\ from = "NonZeroUsize" /\ to = "f32"
    /\ x = Ones(16)
    /\ NonZeroLossless("NonZeroU16", "f32")
    /\ out = [panic |-> FALSE, value |-> As("u16", "f32", x)]

\* C25: bitwise() is defined only for casts whose source and target types
\* have the same bit width on the build's pointer width: no pair of types of
\* different sizes and no primitive -> NonZero* pair has a Bitwise
\* implementation, and every bitwise() that ran was on a pair of one size.
C25_BitwiseOnlyForIdenticalWidth ==
    /\ pc = "idle" =>
          \A f \in PrimitiveTypes \cup NonZeroTypes,
             t \in PrimitiveTypes \cup NonZeroTypes :
             HasBitwise(f, t) =>
                /\ Width(Root(f)) = Width(Root(t))
                /\ ~(f \in PrimitiveTypes /\ t \in NonZeroTypes)
    /\ op = "bitwise" =>
          /\ Width(Root(from)) = Width(Root(to))
          /\ ~(from \in PrimitiveTypes /\ to \in NonZeroTypes)

\* bitwise() has run on a usize cast to u32 on the 32-bit build
C25_UsizeToU32On32Bit ==
    /\ op = "bitwise"
    /\ ptr = 32
    /\ from = "usize"
    /\ to = "u32"
    /\ ~out.panic

\* C26: bitwise() is available for every ordered pair of types of the same
\* size for which Lossy or Lossless is supported (every pair but primitive ->
\* NonZero*), on every pointer width, so on the Result of every cast of such a
\* pair, usize -> usize, usize <-> isize,
\* isize -> isize and NonZeroUsize / NonZeroIsize -> usize / isize included.
C26_BitwiseForEverySameSizePair ==
    /\ pc # "idle"
    /\ Width(Root(from)) = Width(Root(to))
    /\ from \in NonZeroTypes \/ to \in PrimitiveTypes
    => HasBitwise(from, to)

\* C29: inside bitwise(), whenever the forward cast was Ok(y), the cast of y
\* back to the source type (to the primitive of a NonZero* source) is Ok, so
\* bitwise() never fails the debug assertion of assumed_lossless, for any
\* source value of any pair it is defined for.
C29_BitwiseNeverAsserts ==
    op = "bitwise" =>
       /\ ~out.panic
       /\ IsOk(res) =>
             \A c \in cast_impl(to, Root(from), res.value) : c # Abort /\ IsOk(c)

\* bitwise() has run on the Ok of a cast from a NonZero* in a build with
\* debug assertions
C29_BitwiseOfOkNonZeroInDebug ==
    /\ op = "bitwise"
    /\ debug
    /\ from \in NonZeroTypes
    /\ IsOk(res)
    /\ ~out.panic

C28_NoStdClosestIsStdClosest ==
    op = "closest_no_std" => out.value = closest(from, to, res)

\* C30: in the round-trip classification (cast!(floating ...), which tests
\* self == (self as To) as From) cast returns Ok only if no data was lost:
\* only if `self as To` has the mathematical value of self, for every
\* integer -> float and float -> integer pair.
C30_FloatingOkOnlyIfValueKept ==
    /\ op = "cast_floating"
    /\ from \in IntTypes \/ to \in IntTypes
    /\ IsOk(res)
    => ValEq(Val(from, x), Val(to, res.value))

====
